---- MODULE Spec2Model ----
(***************************************************************************)
(* Backend supervisor of src-tauri/src/main.rs: the three Tauri commands   *)
(* start_backend, stop_backend and get_backend_status acting on the shared *)
(* AppState, together with the helpers they call (discovery, port choice,  *)
(* log parsing, readiness wait) and the child processes they spawn, and    *)
(* cleanup_app, which runs stop_backend when the window is closed.         *)
(*                                                                         *)
(* Every command is cut at the points where another command can run in     *)
(* between: each lock()/swap() on a field of AppState and each .await is   *)
(* one step.  The guard of backend_process is held over several statements *)
(* in three places (the alive branch of start_backend, all of stop_backend *)
(* and of get_backend_status); procLock records its holder.  The guards of *)
(* backend_port and backend_boot_token are temporaries of one statement.   *)
(*                                                                         *)
(* Encoding of values: a port is a number, 0 where the program has 0;      *)
(* Option<u32> pid and Option<Child> are 0 for None, else the pid;         *)
(* Option<String> boot token is None (0), else a token number.  Tokens     *)
(* drawn from OsRng are numbered 1, 2, ... in the order they are drawn.    *)
(***************************************************************************)
EXTENDS Integers, Sequences, FiniteSets, TLC

\* ---------------------------------------------------------------- bounds
NumCallers == 2      \* commands that may be in flight at the same time
SeqCalls == 3        \* commands of a run in which they follow one another
ConcCalls == 2       \* commands of a run in which they may overlap
SeqFeatures == 2     \* departures from the plain configuration, sequential runs
ConcFeatures == 1    \* departures from the plain configuration, overlapping runs

\* ------------------------------------------------------- program constants
BACKEND_IDENTIFIER == "super-auto-cut-video-backend"
DevRangeFirst == 8000
DevRangeLast == 8100
ProdRangeFirst == 18000
ProdRangeLast == 18100

None == 0            \* Option::None of a pid, a handle or a boot token
EmptyString == -1    \* the boot_token "" of an info response
ExtToken == 99       \* a boot token reported by a backend of another session

Callers == 1..NumCallers

\* -------------------------------------------------------------- variables
VARIABLES
    backend_process,     \* AppState.backend_process: None or the pid of the Child
    backend_port,        \* AppState.backend_port
    backend_starting,    \* AppState.backend_starting
    backend_boot_token,  \* AppState.backend_boot_token
    procLock,            \* holder of the backend_process mutex, 0 when free
    procs,               \* processes spawned so far; the pid is the index.
                         \* state: "starting", "listening" or "exited"; port and
                         \* token: the PORT and SACV_BOOT_TOKEN of its environment;
                         \* cmd: "exe" or "script"; kills: the kill calls it got
    ext,                 \* services of other origin, by port
    log,                 \* ports of the banner lines of the log file, in order
    is_dev_mode,         \* TAURI_DEV == "1"
    forced_port,         \* SACV_FORCE_PORT, 0 when unset or not a port > 0
    is_windows,          \* cfg(target_os = "windows")
    workload,            \* what the GUI shell does in this run
    tokens,              \* boot tokens generated so far
    pc, loc,             \* per caller: position in its command, locals
    solo,                \* per caller: no other command ran during this one
    hist,                \* the commands that returned, in order of return
    fn                   \* a helper function run on its own: its inputs, the
                         \* files it works on and what it returned ("none" in
                         \* name when the commands run, which abstract these)

vars == <<backend_process, backend_port, backend_starting, backend_boot_token,
          procLock, procs, ext, log, is_dev_mode, forced_port, is_windows,
          workload, tokens, pc, loc, solo, hist, fn>>

appState == <<backend_process, backend_port, backend_starting, backend_boot_token>>
config == <<ext, is_dev_mode, forced_port, is_windows, workload, fn>>
world == <<procs, log, config>>

\* ------------------------------------------------------ services and probes
\* What GET /api/server/info on a port yields: up = a 2xx response whose JSON
\* body has a "data" object with an "identifier" string; the fields are those
\* of "data" (port 0 = no "port" field, boot_token None = no "boot_token"
\* field).  fault says what went wrong when up is FALSE: "send" (the request
\* failed or timed out), "status" (a non-success status), "body" (the body
\* is not JSON) or "field" ("data" or "identifier" is missing).
Faulty(fault) ==
    [up |-> FALSE, fault |-> fault, identifier |-> "", port |-> 0, boot_token |-> None]
Down == Faulty("send")
Foreign == [up |-> TRUE, fault |-> "none", identifier |-> "other-service", port |-> 0,
            boot_token |-> None]
Compatible(port, boot_token) ==
    [up |-> TRUE, fault |-> "none", identifier |-> BACKEND_IDENTIFIER, port |-> port,
     boot_token |-> boot_token]

\* A backend spawned by this supervisor reports the PORT and the
\* SACV_BOOT_TOKEN of its environment.
Listening(port) == {i \in DOMAIN procs : procs[i].state = "listening" /\ procs[i].port = port}
ServiceAt(port) ==
    IF Listening(port) # {}
    THEN LET i == CHOOSE i \in Listening(port) : TRUE
         IN  Compatible(procs[i].port, procs[i].token)
    ELSE IF port \in DOMAIN ext THEN ext[port] ELSE Down

Occupied == {p \in DOMAIN ext : ext[p].up}
            \cup {procs[i].port : i \in {j \in DOMAIN procs : procs[j].state = "listening"}}

NotFound == [found |-> FALSE, port |-> 0, boot_token |-> None]
Found(port, boot_token) == [found |-> TRUE, port |-> port, boot_token |-> boot_token]

\* A boot token kept as reported.
FilterTokenKeepsEmpty(t) == t

\* data.get("boot_token") ... .filter(|t| !t.is_empty())
FilterToken(t) == IF t = EmptyString THEN None ELSE t

\* A candidate answered for with the port it was probed on.
ProbeCandidateProbedPort(p, require_token) ==
    LET s == ServiceAt(p)
    IN  IF ~s.up THEN NotFound
        ELSE IF s.identifier # BACKEND_IDENTIFIER THEN NotFound
        ELSE LET boot_token == FilterToken(s.boot_token)
             IN  IF require_token /\ boot_token = None THEN NotFound
                 ELSE Found(p, boot_token)

\* One candidate of discover_existing_backend's loop body: a failed send,
\* a non-success status, an unparsable body and a missing field all
\* `continue`.
ProbeCandidate(p, require_token) ==
    LET s == ServiceAt(p)
    IN  IF ~s.up THEN NotFound
        ELSE IF s.identifier # BACKEND_IDENTIFIER THEN NotFound
        ELSE LET reported_port == IF s.port # 0 THEN s.port ELSE p
                 boot_token == FilterToken(s.boot_token)
             IN  IF require_token /\ boot_token = None THEN NotFound
                 ELSE Found(reported_port, boot_token)

Least(S) == CHOOSE x \in S : \A y \in S : x <= y

\* `for p in start..end`: the first candidate, in ascending order, that is
\* not skipped.
ScanRange(start, end, require_token) ==
    LET hits == {p \in start..(end - 1) : ProbeCandidate(p, require_token).found}
    IN  IF hits = {} THEN NotFound ELSE ProbeCandidate(Least(hits), require_token)

\* A scan that starts with the range of the packaged application.
discover_existing_backend_ProdFirst(require_token) ==
    LET a == ScanRange(ProdRangeFirst, ProdRangeLast + 1, require_token)
    IN  IF a.found THEN a
        ELSE ScanRange(DevRangeFirst, DevRangeLast + 1, require_token)

discover_existing_backend(require_token) ==
    LET a == ScanRange(DevRangeFirst, DevRangeLast + 1, require_token)
    IN  IF a.found THEN a
        ELSE ScanRange(ProdRangeFirst, ProdRangeLast + 1, require_token)

check_backend_on_port(port, require_token) ==
    LET s == ServiceAt(port)
    IN  IF ~s.up THEN NotFound
        ELSE IF s.identifier # BACKEND_IDENTIFIER THEN NotFound
        ELSE LET reported_port == IF s.port # 0 THEN s.port ELSE port
                 boot_token == FilterToken(s.boot_token)
             IN  IF require_token /\ boot_token = None THEN NotFound
                 ELSE Found(reported_port, boot_token)

\* ------------------------------------------------------------------ the log
\* A line of super_auto_cut_backend.log that holds "http://127.0.0.1:<port>":
\* tag is the prefix the reader thread wrote, phrase what precedes the URL
\* ("uvicorn" = "Uvicorn running on ", "running" = another spelling of
\* running on, "listening" = a spelling of listening on or serving on, "none" =
\* no such phrase), port the digits after the colon (0 when there are none).  Lines without the URL do not take part
\* in parse_backend_port_from_log and are left out.
BannerLine(tag, port) == [tag |-> tag, phrase |-> "uvicorn", port |-> port]

LastIndex(content, tag, phrase) ==
    LET hits == {i \in DOMAIN content :
                    /\ tag \in {"any", content[i].tag}
                    /\ phrase \in {"any", content[i].phrase}}
    IN  IF hits = {} THEN 0 ELSE CHOOSE i \in hits : \A j \in hits : j <= i

\* 0 stands for None.
parse_backend_port_from_log(content) ==
    LET n1 == LastIndex(content, "any", "uvicorn")
        n2 == LastIndex(content, "stdout", "uvicorn")
        n3 == LastIndex(content, "stderr", "uvicorn")
        g  == LastIndex(content, "any", "any")
    IN  IF n1 # 0 /\ content[n1].port > 0 THEN content[n1].port
        ELSE IF n2 # 0 /\ content[n2].port > 0 THEN content[n2].port
        ELSE IF n3 # 0 /\ content[n3].port > 0 THEN content[n3].port
        ELSE IF g # 0 /\ content[g].phrase # "none" /\ content[g].port > 0
             THEN content[g].port
        ELSE 0

discover_existing_backend_quick(require_token) ==
    LET p == parse_backend_port_from_log(log)
        a == IF p # 0 THEN check_backend_on_port(p, require_token) ELSE NotFound
        b == check_backend_on_port(ProdRangeFirst, require_token)
    IN  IF a.found THEN a
        ELSE IF b.found THEN b
        ELSE check_backend_on_port(DevRangeFirst, require_token)

\* ------------------------------------------------------------- port choice
is_port_available(port, occupied) == port \notin occupied

\* The last port of the range that is free to bind.
FirstAvailableHighest(first, last, occupied) ==
    LET free == {p \in first..last : is_port_available(p, occupied)}
    IN  IF free = {} THEN 0 ELSE CHOOSE x \in free : \A y \in free : y <= x

\* `for p in first..=last`: the first port, in ascending order, that is free
\* to bind; 0 when the loop ends without one.
FirstAvailable(first, last, occupied) ==
    LET free == {p \in first..last : is_port_available(p, occupied)}
    IN  IF free = {} THEN 0 ELSE Least(free)

\* A choice that looks at the range of its own mode only.
choose_backend_port_OwnRange(dev, occupied, ephemeral) ==
    IF dev
    THEN LET a == FirstAvailable(DevRangeFirst, DevRangeLast, occupied)
         IN  IF a # 0 THEN a ELSE DevRangeFirst
    ELSE LET a == FirstAvailable(ProdRangeFirst, ProdRangeLast, occupied)
         IN  IF a # 0 THEN a
             ELSE IF ephemeral # 0 THEN ephemeral
             ELSE ProdRangeFirst

\* ephemeral: the port of TcpListener::bind(("127.0.0.1", 0)), 0 if it fails.
choose_backend_port(dev, occupied, ephemeral) ==
    IF dev
    THEN LET preferred == DevRangeFirst
             a == FirstAvailable(preferred, preferred + 100, occupied)
             b == FirstAvailable(ProdRangeFirst, ProdRangeLast, occupied)
         IN  IF is_port_available(preferred, occupied) THEN preferred
             ELSE IF a # 0 THEN a
             ELSE IF b # 0 THEN b
             ELSE preferred
    ELSE LET a == FirstAvailable(ProdRangeFirst, ProdRangeLast, occupied)
             b == FirstAvailable(DevRangeFirst, DevRangeLast, occupied)
         IN  IF a # 0 THEN a
             ELSE IF b # 0 THEN b
             ELSE IF ephemeral # 0 THEN ephemeral
             ELSE ProdRangeFirst

\* ------------------------------------------------------ command resolution
\* The files start_backend looks at, as it finds them at one call:
\*   force_packaged  FORCE_PACKAGED_BACKEND == "1"
\*   zip_exists      resource_root/superAutoCutVideoBackend.zip
\*   folder_exists   resource_root/superAutoCutVideoBackend/superAutoCutVideoBackend.exe
\*   other_exists    some other path of `candidates` exists
\*   unpack_ok       ensure_backend_executable_available returns Ok (Windows)
\*   script_exists   backend/main.py is found from one of the search roots
Files == [force_packaged : BOOLEAN, zip_exists : BOOLEAN, folder_exists : BOOLEAN,
          other_exists : BOOLEAN, unpack_ok : BOOLEAN, script_exists : BOOLEAN]

\* A resolution that falls back to the script in every mode.
ResolveCommandAnyMode(dev, windows, f) ==
    LET prefer_python_backend ==
            dev /\ ~f.force_packaged /\ ~f.zip_exists /\ ~f.folder_exists
        unpack == windows /\ ~prefer_python_backend /\ f.zip_exists /\ ~f.folder_exists
        executable_exists ==
            \/ unpack /\ f.unpack_ok
            \/ windows /\ f.folder_exists
            \/ f.other_exists
    IN  IF unpack /\ ~f.unpack_ok THEN "error"
        ELSE IF ~prefer_python_backend /\ executable_exists THEN "exe"
        ELSE IF f.script_exists THEN "script" ELSE "error"

\* "exe", "script", or "error" where start_backend returns Err.
ResolveCommand(dev, windows, f) ==
    LET prefer_python_backend ==
            dev /\ ~f.force_packaged /\ ~f.zip_exists /\ ~f.folder_exists
        unpack == windows /\ ~prefer_python_backend /\ f.zip_exists /\ ~f.folder_exists
        executable_exists ==
            \/ unpack /\ f.unpack_ok
            \/ windows /\ f.folder_exists
            \/ f.other_exists
    IN  IF unpack /\ ~f.unpack_ok THEN "error"
        ELSE IF ~prefer_python_backend /\ executable_exists THEN "exe"
        ELSE IF dev THEN (IF f.script_exists THEN "script" ELSE "error")
        ELSE "error"

\* ------------------------------------------------------------ initial state
\* Ports on which a service of other origin may listen, and what it may be:
\* nothing, a service with another identifier, a backend of another session
\* (with no token and no port field, with its own port and a token, or
\* reporting another port than the one it is reached on, with an empty token).
ExtPorts == {DevRangeFirst, DevRangeFirst + 5}
ExtKinds(p) == {Down, Foreign, Compatible(0, None), Compatible(p, ExtToken),
                Compatible(DevRangeFirst + 1, EmptyString)}
ExtConfigs == {e \in [ExtPorts -> UNION {ExtKinds(p) : p \in ExtPorts}] :
                  \A p \in ExtPorts : e[p] \in ExtKinds(p)}

\* The log file outlives a session: it is empty, or ends with the banner of
\* a backend of an earlier session.
InitLogs == {<<>>, <<BannerLine("stderr", DevRangeFirst)>>}

NoLoc == [port |-> 0, token |-> None, pid |-> None, found |-> NotFound, cmd |-> "none",
          entry |-> "none"]
NoRes == [kind |-> "none", running |-> FALSE, port |-> 0, pid |-> None,
          boot_token |-> None, stopped |-> FALSE, path |-> "none"]

\* Ok(BackendStatus { running, port, pid, boot_token }); path names the return.
Status(running, port, pid, boot_token, path) ==
    [kind |-> "ok", running |-> running, port |-> port, pid |-> pid,
     boot_token |-> boot_token, stopped |-> FALSE, path |-> path]
\* A stop that reports a process stopped in every case.
StoppedAlways(b, path) == [NoRes EXCEPT !.kind = "ok", !.stopped = TRUE, !.path = path]
\* Ok(bool) of stop_backend.
Stopped(b, path) == [NoRes EXCEPT !.kind = "ok", !.stopped = b, !.path = path]
\* Err(String).
Error(path) == [NoRes EXCEPT !.kind = "err", !.path = path]

\* No helper function is run on its own.
NoCall == [name |-> "none"]

\* The environment a run starts in.
Configs == [ext : ExtConfigs, log : InitLogs, dev : BOOLEAN,
            forced : {0, DevRangeFirst}, windows : BOOLEAN]

\* What the GUI shell does in a run: callers = how many commands it lets run
\* at the same time, ops[k] = the commands its k-th invocation may be.
\* "cleanup" is cleanup_app, which the window's close request runs (lines
\* 1325-1329): it is the last thing the shell does.
Commands == {"start", "stop", "status"}
Entries == Commands \cup {"cleanup"}
Sequential == [callers |-> 1,
               ops |-> [k \in 1..SeqCalls |-> IF k = SeqCalls THEN Entries ELSE Commands]]
Concurrent == [callers |-> NumCallers,
               ops |-> [k \in 1..ConcCalls |-> IF k = ConcCalls THEN Entries ELSE Commands]]
StopRace == [callers |-> NumCallers,
             ops |-> <<{"start"}>> \o [k \in 1..ConcCalls |-> {"stop"}]]

\* In how many ways a configuration departs from the plain one (nothing else
\* listening, an empty log, no forced port, not Windows).
Features(c) ==
    Cardinality({p \in ExtPorts : c.ext[p] # Down})
    + (IF c.log # <<>> THEN 1 ELSE 0)
    + (IF c.forced # 0 THEN 1 ELSE 0)
    + (IF c.windows THEN 1 ELSE 0)

Scenarios ==
    {[config |-> c, workload |-> Sequential] : c \in {d \in Configs : Features(d) <= SeqFeatures}}
    \cup {[config |-> c, workload |-> Concurrent] : c \in {d \in Configs : Features(d) <= ConcFeatures}}
    \cup {[config |-> c, workload |-> StopRace] : c \in {d \in Configs : Features(d) <= ConcFeatures}}

Init ==
    /\ backend_process = None
    /\ backend_port = 0
    /\ backend_starting = FALSE
    /\ backend_boot_token = None
    /\ procLock = 0
    /\ procs = <<>>
    /\ \E sc \in Scenarios :
          /\ ext = sc.config.ext
          /\ log = sc.config.log
          /\ is_dev_mode = sc.config.dev
          /\ forced_port = sc.config.forced
          /\ is_windows = sc.config.windows
          /\ workload = sc.workload
    /\ tokens = 0
    /\ pc = [t \in Callers |-> "idle"]
    /\ loc = [t \in Callers |-> NoLoc]
    /\ solo = [t \in Callers |-> TRUE]
    /\ hist = <<>>
    /\ fn = NoCall

\* ----------------------------------------------------------------- callers
InFlight == {t \in Callers : pc[t] # "idle"}
ncalls == Len(hist) + Cardinality(InFlight)

\* The GUI shell invokes command o on caller t, the first one that is free.
CanInvoke(t, o) ==
    /\ pc[t] = "idle"
    /\ t <= workload.callers
    /\ \A u \in Callers : u < t => pc[u] # "idle"
    /\ ncalls < Len(workload.ops)
    /\ o \in workload.ops[ncalls + 1]

Overlap(t) == [u \in Callers |-> IF u \in InFlight \ {t} THEN FALSE ELSE solo[u]]

\* Every command begins with state.backend_process.lock() (lines 568, 1116,
\* 1148).  With the mutex free the invocation and the locked block are one
\* step; with the mutex held the command waits at the label of its name.
Block(t) ==
    /\ procLock # 0
    /\ \E o \in Entries :
          /\ CanInvoke(t, o)
          /\ pc' = [pc EXCEPT ![t] = o]
    /\ solo' = [Overlap(t) EXCEPT ![t] = FALSE]
    /\ UNCHANGED <<appState, procLock, world, tokens, loc, hist>>

\* Caller t is at the first statement of command o, and the mutex is free.
Begins(t, o) ==
    /\ CanInvoke(t, o) \/ pc[t] = o
    /\ procLock = 0

Alone(t) == IF pc[t] = "idle" THEN InFlight = {} ELSE solo[t]

\* The first step of a command that goes on at label.
Enter(t, label) ==
    /\ pc' = [pc EXCEPT ![t] = label]
    /\ solo' = [Overlap(t) EXCEPT ![t] = Alone(t)]
    /\ UNCHANGED hist

\* A later step of a command.
Goto(t, label) ==
    /\ pc' = [pc EXCEPT ![t] = label]
    /\ UNCHANGED <<solo, hist>>

Call(o, r, alone) == [op |-> o, res |-> r, solo |-> alone]

\* A command that returns r in its first step.
EnterReturn(t, o, r) ==
    /\ hist' = Append(hist, Call(o, r, Alone(t)))
    /\ pc' = [pc EXCEPT ![t] = "idle"]
    /\ solo' = [Overlap(t) EXCEPT ![t] = TRUE]
    /\ UNCHANGED loc

\* A command that returns r in a later step.
Return(t, o, r) ==
    /\ pc' = [pc EXCEPT ![t] = "idle"]
    /\ loc' = [loc EXCEPT ![t] = NoLoc]
    /\ hist' = Append(hist, Call(o, r, solo[t]))
    /\ solo' = [solo EXCEPT ![t] = TRUE]

Exited(pid) == procs[pid].state = "exited"

\* A check of the child that ends it.
try_wait_kills(ps, pid) == [ps EXCEPT ![pid].state = "exited", ![pid].kills = @ + 1]

\* child.try_wait(), lines 570 and 1151: it collects the exit status of a
\* child that has exited and leaves a running one alone.
try_wait(ps, pid) == ps

\* ------------------------------------------------------------ start_backend
\* Lines 567-597: the check under the backend_process guard.  try_wait's Err
\* arm is not produced: waiting for an unreaped child of this process succeeds.
StartCheck(t) ==
    /\ Begins(t, "start")
    /\ IF backend_process = None
       THEN Enter(t, "discover") /\ UNCHANGED <<backend_process, procLock, procs>>
       ELSE /\ procs' = try_wait(procs, backend_process)
            /\ IF Exited(backend_process)
               THEN /\ backend_process' = None
                    /\ Enter(t, "discover")
                    /\ UNCHANGED procLock
               ELSE /\ procLock' = t
                    /\ Enter(t, "alive_port")
                    /\ UNCHANGED backend_process
    /\ UNCHANGED <<backend_port, backend_starting, backend_boot_token, log, config,
                   tokens, loc>>

\* Line 577.
StartAlivePort(t) ==
    /\ pc[t] = "alive_port"
    /\ loc' = [loc EXCEPT ![t].port = backend_port]
    /\ Goto(t, "alive_token")
    /\ UNCHANGED <<appState, procLock, world, tokens>>

\* The alive branch answering as the discovery branches do, with no pid.
StartAliveTokenNoPid(t) ==
    /\ pc[t] = "alive_token"
    /\ procLock' = 0
    /\ Return(t, "start", Status(TRUE, loc[t].port, None, backend_boot_token, "alive"))
    /\ UNCHANGED <<appState, world, tokens>>

\* Lines 578-589.
StartAliveToken(t) ==
    /\ pc[t] = "alive_token"
    /\ procLock' = 0
    /\ Return(t, "start", Status(TRUE, loc[t].port, backend_process, backend_boot_token, "alive"))
    /\ UNCHANGED <<appState, world, tokens>>

\* Lines 599-606, 618-620 and 633-914: the discovery of the mode (none with
\* a forced port), then the command to run, from the files found at this call.
StartDiscover(t) ==
    /\ pc[t] = "discover"
    /\ LET r == IF forced_port # 0 THEN NotFound
                ELSE IF is_dev_mode THEN discover_existing_backend(FALSE)
                ELSE discover_existing_backend_quick(TRUE)
       IN  IF r.found
           THEN /\ loc' = [loc EXCEPT ![t].found = r]
                /\ Goto(t, "adopt_port")
           ELSE \E f \in Files :
                  LET cmd == ResolveCommand(is_dev_mode, is_windows, f)
                  IN  IF cmd = "error"
                      THEN Return(t, "start", Error("resolution"))
                      ELSE /\ loc' = [loc EXCEPT ![t].cmd = cmd]
                           /\ Goto(t, "guard")
    /\ UNCHANGED <<appState, procLock, world, tokens>>

\* Lines 607 and 621.
StartAdoptPort(t) ==
    /\ pc[t] = "adopt_port"
    /\ backend_port' = loc[t].found.port
    /\ Goto(t, "adopt_token")
    /\ UNCHANGED <<backend_process, backend_starting, backend_boot_token,
                   procLock, world, tokens, loc>>

\* Lines 608-615 and 622-629.
StartAdoptToken(t) ==
    /\ pc[t] = "adopt_token"
    /\ backend_boot_token' = loc[t].found.boot_token
    /\ Return(t, "start", Status(TRUE, loc[t].found.port, None, loc[t].found.boot_token, "discovered"))
    /\ UNCHANGED <<backend_process, backend_port, backend_starting, procLock, world, tokens>>

\* Line 917: backend_starting.swap(true).
StartGuard(t) ==
    /\ pc[t] = "guard"
    /\ backend_starting' = TRUE
    /\ Goto(t, IF backend_starting THEN "busy_port" ELSE "set_port")
    /\ UNCHANGED <<backend_process, backend_port, backend_boot_token,
                   procLock, world, tokens, loc>>

\* Lines 918-919: after the sleep, the port recorded at that moment.
StartBusyPort(t) ==
    /\ pc[t] = "busy_port"
    /\ loc' = [loc EXCEPT ![t].port = backend_port]
    /\ Goto(t, "busy_token")
    /\ UNCHANGED <<appState, procLock, world, tokens>>

\* A return that reports a backend running whatever the port.
StartBusyTokenRunning(t) ==
    /\ pc[t] = "busy_token"
    /\ Return(t, "start", Status(TRUE, loc[t].port, None, backend_boot_token, "busy"))
    /\ UNCHANGED <<appState, procLock, world, tokens>>

\* Lines 920-932.
StartBusyToken(t) ==
    /\ pc[t] = "busy_token"
    /\ Return(t, "start", Status(loc[t].port # 0, loc[t].port, None, backend_boot_token, "busy"))
    /\ UNCHANGED <<appState, procLock, world, tokens>>

\* Lines 936-982: the port (forced, else chosen among those free to bind
\* now), a fresh boot token, and the port recorded.
StartSetPort(t) ==
    /\ pc[t] = "set_port"
    /\ LET port == IF forced_port # 0 THEN forced_port
                   ELSE choose_backend_port(is_dev_mode, Occupied, 0)
       IN  /\ backend_port' = port
           /\ loc' = [loc EXCEPT ![t].port = port, ![t].token = tokens + 1]
    /\ tokens' = tokens + 1
    /\ Goto(t, "set_token")
    /\ UNCHANGED <<backend_process, backend_starting, backend_boot_token, procLock, world>>

\* Line 983.
StartSetToken(t) ==
    /\ pc[t] = "set_token"
    /\ backend_boot_token' = loc[t].token
    /\ Goto(t, "spawn")
    /\ UNCHANGED <<backend_process, backend_port, backend_starting,
                   procLock, world, tokens, loc>>

\* Lines 984-1040 and 1099: cmd.spawn(), which the OS may refuse.
StartSpawn(t) ==
    /\ pc[t] = "spawn"
    /\ \/ /\ procs' = Append(procs, [state |-> "starting", port |-> loc[t].port,
                                     token |-> loc[t].token, cmd |-> loc[t].cmd,
                                     kills |-> 0])
          /\ loc' = [loc EXCEPT ![t].pid = Len(procs) + 1]
          /\ Goto(t, "store")
       \/ /\ Goto(t, "fail_flag")
          /\ UNCHANGED <<procs, loc>>
    /\ UNCHANGED <<appState, procLock, log, config, tokens>>

\* Lines 1041-1044: the handle replaces whatever backend_process held.
StartStore(t) ==
    /\ pc[t] = "store"
    /\ procLock = 0
    /\ backend_process' = loc[t].pid
    /\ Goto(t, "unflag")
    /\ UNCHANGED <<backend_port, backend_starting, backend_boot_token,
                   procLock, world, tokens, loc>>

\* Line 1045.
StartUnflag(t) ==
    /\ pc[t] = "unflag"
    /\ backend_starting' = FALSE
    /\ Goto(t, "wait")
    /\ UNCHANGED <<backend_process, backend_port, backend_boot_token,
                   procLock, world, tokens, loc>>

\* wait_for_backend_ready(host, port, 60), lines 92-112, as start_backend sees
\* it: true when a poll of /api/hello on the port got a success status (any
\* service listening there may give one), false when no poll did.
wait_for_backend_ready(port) == {FALSE} \cup {TRUE : p \in {port} \cap Occupied}

\* Lines 1048-1061.
StartWait(t) ==
    /\ pc[t] = "wait"
    /\ \E ready \in wait_for_backend_ready(loc[t].port) :
          IF ready
          THEN Return(t, "start", Status(TRUE, loc[t].port, loc[t].pid, loc[t].token, "ready"))
          ELSE Goto(t, "recover") /\ UNCHANGED loc
    /\ UNCHANGED <<appState, procLock, world, tokens>>

\* Lines 1064-1065: on timeout, the port of the log when it has one.
StartRecover(t) ==
    /\ pc[t] = "recover"
    /\ LET found_port == parse_backend_port_from_log(log)
       IN  IF found_port # 0
           THEN /\ backend_port' = found_port
                /\ loc' = [loc EXCEPT ![t].port = found_port]
                /\ Goto(t, "recover_token")
           ELSE /\ Goto(t, "rediscover")
                /\ UNCHANGED <<backend_port, loc>>
    /\ UNCHANGED <<backend_process, backend_starting, backend_boot_token,
                   procLock, world, tokens>>

\* Lines 1070-1075.
StartRecoverToken(t) ==
    /\ pc[t] = "recover_token"
    /\ Return(t, "start", Status(TRUE, loc[t].port, loc[t].pid, backend_boot_token, "log"))
    /\ UNCHANGED <<appState, procLock, world, tokens>>

\* A timeout that gives the launch up: the handle is dropped.
StartRediscoverDropsHandle(t) ==
    /\ pc[t] = "rediscover"
    /\ LET r == discover_existing_backend_quick(~is_dev_mode)
       IN  IF r.found
           THEN /\ loc' = [loc EXCEPT ![t].found = r]
                /\ Goto(t, "rediscover_port")
                /\ UNCHANGED backend_process
           ELSE /\ backend_process' = None
                /\ Return(t, "start", Error("timeout"))
    /\ UNCHANGED <<backend_port, backend_starting, backend_boot_token,
                   procLock, world, tokens>>

\* Lines 1077-1078 and 1092-1095.
StartRediscover(t) ==
    /\ pc[t] = "rediscover"
    /\ LET r == discover_existing_backend_quick(~is_dev_mode)
       IN  IF r.found
           THEN /\ loc' = [loc EXCEPT ![t].found = r]
                /\ Goto(t, "rediscover_port")
           ELSE Return(t, "start", Error("timeout"))
    /\ UNCHANGED <<appState, procLock, world, tokens>>

\* Line 1080.
StartRediscoverPort(t) ==
    /\ pc[t] = "rediscover_port"
    /\ backend_port' = loc[t].found.port
    /\ Goto(t, "rediscover_token")
    /\ UNCHANGED <<backend_process, backend_starting, backend_boot_token,
                   procLock, world, tokens, loc>>

\* Lines 1081-1091.
StartRediscoverToken(t) ==
    /\ pc[t] = "rediscover_token"
    /\ backend_boot_token' = loc[t].found.boot_token
    /\ Return(t, "start", Status(TRUE, loc[t].found.port, loc[t].pid, loc[t].found.boot_token,
                        "rediscovered"))
    /\ UNCHANGED <<backend_process, backend_port, backend_starting, procLock, world, tokens>>

\* A spawn failure that leaves the flag as it is.
StartFailFlagKeeps(t) ==
    /\ pc[t] = "fail_flag"
    /\ Goto(t, "fail_port")
    /\ UNCHANGED <<appState, procLock, world, tokens, loc>>

\* Line 1100.
StartFailFlag(t) ==
    /\ pc[t] = "fail_flag"
    /\ backend_starting' = FALSE
    /\ Goto(t, "fail_port")
    /\ UNCHANGED <<backend_process, backend_port, backend_boot_token,
                   procLock, world, tokens, loc>>

\* Line 1101.
StartFailPort(t) ==
    /\ pc[t] = "fail_port"
    /\ backend_port' = 0
    /\ Goto(t, "fail_token")
    /\ UNCHANGED <<backend_process, backend_starting, backend_boot_token,
                   procLock, world, tokens, loc>>

\* Lines 1102-1108.
StartFailToken(t) ==
    /\ pc[t] = "fail_token"
    /\ backend_boot_token' = None
    /\ Return(t, "start", Error("spawn"))
    /\ UNCHANGED <<backend_process, backend_port, backend_starting, procLock, world, tokens>>

\* ------------------------------------------------------------- stop_backend
\* kill_all_backend_processes, lines 47-53 (Windows): taskkill /F /IM
\* superAutoCutVideoBackend.exe /T ends every running process of that image
\* name, here the packaged backends this supervisor spawned.
kill_all_backend_processes(ps) ==
    [i \in DOMAIN ps |->
        IF ps[i].cmd = "exe" /\ ps[i].state # "exited"
        THEN [ps[i] EXCEPT !.state = "exited", !.kills = @ + 1]
        ELSE ps[i]]

Sweep(ps) == IF is_windows THEN kill_all_backend_processes(ps) ELSE ps

\* A stop that leaves the handle where it is.
TakeLeavesHandle(handle) == handle

\* process_guard.take(), line 1118: what backend_process holds afterwards.
Take(handle) == None

\* child.kill(), line 1120: the process is gone; kills counts the terminate
\* signals a process received.
Kill(ps, pid) == [ps EXCEPT ![pid].state = "exited", ![pid].kills = @ + 1]

\* Lines 1116-1120 and 1135-1142: take the handle and kill.  cleanup_app
\* (lines 1297-1304) is a call of stop_backend; entry tells the two apart.
\* The Err arm of kill (line 1133) is not produced: the handle is that of a
\* child of this process which nothing has waited for (a try_wait that saw its
\* exit dropped the handle), and std's Child::kill succeeds on such a child,
\* also when it has already exited.
StopTake(t) ==
    \E o \in {"stop", "cleanup"} :
        /\ Begins(t, o)
        /\ IF backend_process = None
           THEN /\ procs' = Sweep(procs)
                /\ EnterReturn(t, o, Stopped(FALSE, "none"))
                /\ UNCHANGED <<backend_process, procLock>>
           ELSE /\ backend_process' = Take(backend_process)
                /\ procs' = Kill(procs, backend_process)
                /\ procLock' = t
                /\ loc' = [loc EXCEPT ![t].pid = backend_process, ![t].entry = o]
                /\ Enter(t, "stop_wait")
        /\ UNCHANGED <<backend_port, backend_starting, backend_boot_token,
                       log, config, tokens>>

\* Line 1122: child.wait() blocks until the process has exited, with the
\* guard of backend_process still held.
StopWait(t) ==
    /\ pc[t] = "stop_wait"
    /\ Exited(loc[t].pid)
    /\ Goto(t, "stop_port")
    /\ UNCHANGED <<appState, procLock, world, tokens, loc>>

\* Line 1123.
StopClearPort(t) ==
    /\ pc[t] = "stop_port"
    /\ backend_port' = 0
    /\ Goto(t, "stop_token")
    /\ UNCHANGED <<backend_process, backend_starting, backend_boot_token,
                   procLock, world, tokens, loc>>

\* Lines 1124-1131.
StopClearToken(t) ==
    /\ pc[t] = "stop_token"
    /\ backend_boot_token' = None
    /\ procs' = Sweep(procs)
    /\ procLock' = 0
    /\ Return(t, loc[t].entry, Stopped(TRUE, "killed"))
    /\ UNCHANGED <<backend_process, backend_port, backend_starting,
                   log, config, tokens>>

\* ------------------------------------------------------- get_backend_status
\* A not-running answer that reports the recorded port.
NotRunningRecordedPort(path) == Status(FALSE, backend_port, None, None, path)

\* Lines 1155-1160 and 1175-1180: the literal answer of both branches.
NotRunning(path) == Status(FALSE, 0, None, None, path)

\* Lines 1148-1161 and 1174-1181.  try_wait's Err arm is not produced.
StatusCheck(t) ==
    /\ Begins(t, "status")
    /\ IF backend_process = None
       THEN /\ EnterReturn(t, "status", NotRunning("none"))
            /\ UNCHANGED <<backend_process, procLock, procs>>
       ELSE /\ procs' = try_wait(procs, backend_process)
            /\ IF Exited(backend_process)
               THEN /\ backend_process' = None
                    /\ EnterReturn(t, "status", NotRunning("exited"))
                    /\ UNCHANGED procLock
               ELSE /\ procLock' = t
                    /\ Enter(t, "status_port")
                    /\ UNCHANGED <<backend_process, loc>>
    /\ UNCHANGED <<backend_port, backend_starting, backend_boot_token, log, config, tokens>>

\* Line 1164.
StatusPort(t) ==
    /\ pc[t] = "status_port"
    /\ loc' = [loc EXCEPT ![t].port = backend_port]
    /\ Goto(t, "status_token")
    /\ UNCHANGED <<appState, procLock, world, tokens>>

\* Lines 1165-1170.
StatusToken(t) ==
    /\ pc[t] = "status_token"
    /\ procLock' = 0
    /\ Return(t, "status", Status(TRUE, loc[t].port, backend_process, backend_boot_token, "alive"))
    /\ UNCHANGED <<appState, world, tokens>>

\* ------------------------------------------------------- spawned processes
\* A spawned backend binds its PORT, if free, and writes its startup banner,
\* which the reader thread of lines 1028-1037 appends to the log.
ChildListen(i) ==
    /\ i \in DOMAIN procs
    /\ procs[i].state = "starting"
    /\ is_port_available(procs[i].port, Occupied)
    /\ procs' = [procs EXCEPT ![i].state = "listening"]
    /\ log' = Append(log, BannerLine("stderr", procs[i].port))
    /\ UNCHANGED <<appState, procLock, config, tokens, pc, loc, solo, hist>>

\* A spawned backend exits by itself (a crash, a port it cannot bind).
ChildExit(i) ==
    /\ i \in DOMAIN procs
    /\ procs[i].state # "exited"
    /\ procs' = [procs EXCEPT ![i].state = "exited"]
    /\ UNCHANGED <<appState, procLock, config, log, tokens, pc, loc, solo, hist>>

\* -------------------------------------------------------------------- Next
Next ==
    \/ \E t \in Callers : Block(t)
    \/ \E t \in Callers : StartCheck(t)
    \/ \E t \in Callers : StartAlivePort(t)
    \/ \E t \in Callers : StartAliveToken(t)
    \/ \E t \in Callers : StartDiscover(t)
    \/ \E t \in Callers : StartAdoptPort(t)
    \/ \E t \in Callers : StartAdoptToken(t)
    \/ \E t \in Callers : StartGuard(t)
    \/ \E t \in Callers : StartBusyPort(t)
    \/ \E t \in Callers : StartBusyToken(t)
    \/ \E t \in Callers : StartSetPort(t)
    \/ \E t \in Callers : StartSetToken(t)
    \/ \E t \in Callers : StartSpawn(t)
    \/ \E t \in Callers : StartStore(t)
    \/ \E t \in Callers : StartUnflag(t)
    \/ \E t \in Callers : StartWait(t)
    \/ \E t \in Callers : StartRecover(t)
    \/ \E t \in Callers : StartRecoverToken(t)
    \/ \E t \in Callers : StartRediscover(t)
    \/ \E t \in Callers : StartRediscoverPort(t)
    \/ \E t \in Callers : StartRediscoverToken(t)
    \/ \E t \in Callers : StartFailFlag(t)
    \/ \E t \in Callers : StartFailPort(t)
    \/ \E t \in Callers : StartFailToken(t)
    \/ \E t \in Callers : StopTake(t)
    \/ \E t \in Callers : StopWait(t)
    \/ \E t \in Callers : StopClearPort(t)
    \/ \E t \in Callers : StopClearToken(t)
    \/ \E t \in Callers : StatusCheck(t)
    \/ \E t \in Callers : StatusPort(t)
    \/ \E t \in Callers : StatusToken(t)
    \/ \E i \in DOMAIN procs : ChildListen(i)
    \/ \E i \in DOMAIN procs : ChildExit(i)

Spec == Init /\ [][Next]_vars

\* ---------------------------------------------------------------- properties
Returned(o) == {k \in DOMAIN hist : hist[k].op = o}

StopLabels == {"stop", "cleanup", "stop_wait", "stop_port", "stop_token"}
StatusLabels == {"status", "status_port", "status_token"}
StartsInFlight == {t \in InFlight : pc[t] \notin StopLabels \cup StatusLabels}

\* A backend of another session is reachable on port p.
MatchingOn(p) == p \in DOMAIN ext /\ ext[p].up /\ ext[p].identifier = BACKEND_IDENTIFIER
\* A service with another identifier listens on port p.
MismatchedOn(p) == p \in DOMAIN ext /\ ext[p].up /\ ext[p].identifier # BACKEND_IDENTIFIER

\* The run so far consists of two start() calls that overlapped, each of which
\* found no handle owned, issued with no backend of another session around,
\* and no spawned process has exited.
TwoConcurrentStarts ==
    /\ ncalls = 2
    /\ \A k \in DOMAIN hist :
          hist[k].op = "start" /\ ~hist[k].solo /\ hist[k].res.path # "alive"
    /\ \A t \in InFlight :
          t \in StartsInFlight /\ ~solo[t] /\ pc[t] \notin {"alive_port", "alive_token"}
    /\ \A p \in DOMAIN ext : ~MatchingOn(p)
    /\ \A i \in DOMAIN procs : procs[i].state # "exited"

\* C1: two start() calls issued concurrently while no backend runs and no
\* handle is owned spawn exactly one backend process: never a second one, and
\* one when both calls have returned a status record.
C1_ConcurrentStartCollapse ==
    TwoConcurrentStarts =>
        /\ Len(procs) <= 1
        /\ (Len(hist) = 2 /\ \A k \in DOMAIN hist : hist[k].res.kind = "ok")
              => Len(procs) = 1

\* C2: two start() calls issued concurrently while no backend runs return the
\* same port in their status records.  A call that reports running=false (it
\* was turned away by the start-in-progress flag before the launching call
\* recorded its port) is left aside: the statement is about two calls that
\* both report a running backend.
C2_ConcurrentStartSamePort ==
    (TwoConcurrentStarts /\ Len(hist) = 2
        /\ \A k \in DOMAIN hist : hist[k].res.kind = "ok" /\ hist[k].res.running)
        => hist[1].res.port = hist[2].res.port

\* Calls k and k + 1 of the history followed one another with nothing else
\* running during either of them.
InSequence(k) == k + 1 \in DOMAIN hist /\ hist[k].solo /\ hist[k + 1].solo

AliveStart(k) == hist[k].op = "start" /\ hist[k].res.path = "alive"

\* C3: a start() that finds an owned process alive spawns nothing and returns
\* running=true with the port it read from the record and the pid of the owned
\* process; two such calls in sequence return the same port and the same pid.
C3_IdempotentStart ==
    [][ /\ \A t \in Callers :
            /\ (pc'[t] = "alive_port" /\ pc[t] # "alive_port")
                  => /\ backend_process # None /\ ~Exited(backend_process)
                     /\ procs' = procs
            /\ (pc[t] = "alive_port" /\ pc'[t] # "alive_port")
                  => loc'[t].port = backend_port /\ procs' = procs
            /\ (pc[t] = "alive_token" /\ pc'[t] # "alive_token")
                  => /\ procs' = procs
                     /\ Len(hist') = Len(hist) + 1
                     /\ LET r == hist'[Len(hist')]
                        IN  /\ r.op = "start" /\ r.res.kind = "ok" /\ r.res.running
                            /\ r.res.port = loc[t].port
                            /\ r.res.pid = backend_process /\ r.res.pid # None
        /\ \A k \in DOMAIN hist' :
              (k + 1 \in DOMAIN hist' /\ hist'[k].solo /\ hist'[k + 1].solo
                 /\ hist'[k].op = "start" /\ hist'[k].res.path = "alive"
                 /\ hist'[k + 1].op = "start" /\ hist'[k + 1].res.path = "alive")
              => /\ hist'[k].res.port = hist'[k + 1].res.port
                 /\ hist'[k].res.pid = hist'[k + 1].res.pid
      ]_vars

\* Two start() calls in sequence both found the owned process alive.
C3_Witness ==
    \E k \in DOMAIN hist :
        /\ InSequence(k) /\ AliveStart(k) /\ AliveStart(k + 1)
        /\ hist[k].res.running /\ hist[k].res.pid # None /\ hist[k].res.port # 0

\* Calls k, k + 1 and k + 2 are start(), stop() and status(), one after the
\* other with no other call interleaved.
RoundTrip(k) ==
    /\ k + 2 \in DOMAIN hist
    /\ hist[k].op = "start" /\ hist[k + 1].op = "stop" /\ hist[k + 2].op = "status"
    /\ hist[k].solo /\ hist[k + 1].solo /\ hist[k + 2].solo

\* C4: after start(), stop(), status() with no other call interleaved,
\* status() returns running=false, port=0, pid=None.
C4_StartStopStatus ==
    \A k \in DOMAIN hist :
        RoundTrip(k) =>
            /\ hist[k + 2].res.kind = "ok"
            /\ ~hist[k + 2].res.running
            /\ hist[k + 2].res.port = 0
            /\ hist[k + 2].res.pid = None

\* A round trip in which start() launched a backend and stop() killed it.
C4_Witness ==
    \E k \in DOMAIN hist :
        /\ RoundTrip(k)
        /\ hist[k].res.running /\ hist[k].res.pid # None
        /\ hist[k + 1].res.stopped
        /\ ~hist[k + 2].res.running

\* The case of C5: development mode, no forced port, and a backend of another
\* session listening on port 8005.
DiscoveryCase == is_dev_mode /\ forced_port = 0 /\ MatchingOn(DevRangeFirst + 5)

\* C5 as stated: in that case every start() that finds no live owned process
\* returns running=true with port 8005, and no process is spawned.
C5_AsStated ==
    DiscoveryCase =>
        /\ procs = <<>>
        /\ \A k \in Returned("start") :
              hist[k].res.path # "alive"
                 => /\ hist[k].res.kind = "ok" /\ hist[k].res.running
                    /\ hist[k].res.port = DevRangeFirst + 5

\* The first port of the scan order on which a backend of another session
\* answers, and the port that backend stands for: the one of its info
\* response, the probed one when the response has none.
FirstMatching == Least({p \in DevRangeFirst..(DevRangeFirst + 5) : MatchingOn(p)})
AdoptedPort ==
    IF ext[FirstMatching].port # 0 THEN ext[FirstMatching].port ELSE FirstMatching

\* C5: in development mode with no forced port and a matching service
\* listening on port 8005, start() spawns nothing and returns running=true, no
\* pid, and the port reported by the first matching service of the scan order
\* (the probed port when it reports none): 8005 when no lower port has a
\* matching service and the one on 8005 reports 8005 or no port.
C5_DiscoveryPrecedence ==
    DiscoveryCase =>
        /\ procs = <<>>
        /\ \A k \in Returned("start") :
              /\ hist[k].res.kind = "ok" /\ hist[k].res.running
              /\ hist[k].res.pid = None
              /\ hist[k].res.port = AdoptedPort
              /\ (FirstMatching = DevRangeFirst + 5
                    /\ ext[FirstMatching].port \in {0, DevRangeFirst + 5})
                    => hist[k].res.port = DevRangeFirst + 5

\* start() adopted the backend on port 8005 and returned that port.
C5_Witness ==
    /\ DiscoveryCase
    /\ \E k \in Returned("start") :
          /\ hist[k].res.running /\ hist[k].res.path = "discovered"
          /\ hist[k].res.port = DevRangeFirst + 5
    /\ procs = <<>>

\* C6: no start() returns running=true, on a discovery path or on the
\* readiness-timeout recovery path, with a port on which a service with
\* another identifier listens.
C6_IdentifierMismatchRejected ==
    \A k \in Returned("start") :
        (hist[k].res.running /\ hist[k].res.path \in {"discovered", "log", "rediscovered"})
            => ~MismatchedOn(hist[k].res.port)

\* C7: when no start() is in flight, every live process this supervisor
\* spawned is the one of the owned handle.
C7_NeverOrphaned ==
    StartsInFlight = {} =>
        \A i \in DOMAIN procs : procs[i].state # "exited" => backend_process = i

StopsReturningTrue == {k \in Returned("stop") : hist[k].res.kind = "ok" /\ hist[k].res.stopped}

\* A start() that ran alone launched a process and left its handle owned; all
\* calls since were stop(), and they have returned.
StopsAgainstOwned ==
    /\ Len(hist) >= 3
    /\ InFlight = {}
    /\ hist[1].op = "start" /\ hist[1].solo
    /\ Len(procs) = 1
    /\ \A k \in 2..Len(hist) : hist[k].op = "stop"

\* No start() has overlapped another call: every process that runs is
\* owned, or was left behind by a start() that had returned.
NoStartOverlapped ==
    /\ \A k \in Returned("start") : hist[k].solo
    /\ \A t \in StartsInFlight : solo[t]

\* C8: stop() calls that find a process owned never send it the terminate
\* signal twice; when stop() calls race for one owned process, the signal is
\* sent to it exactly once, the call that took the handle returns true and
\* every other call returns false.
C8_StopTakesOnce ==
    /\ NoStartOverlapped => \A i \in DOMAIN procs : procs[i].kills <= 1
    /\ StopsAgainstOwned =>
          /\ procs[1].kills = 1
          /\ Cardinality(StopsReturningTrue) = 1
          /\ \A k \in Returned("stop") :
                hist[k].res.kind = "ok" /\ (k \notin StopsReturningTrue => ~hist[k].res.stopped)

\* Two stop() calls overlapped on one owned process: one returned true, the
\* other false.
C8_Witness ==
    /\ StopsAgainstOwned
    /\ Len(hist) = 3
    /\ ~hist[2].solo /\ ~hist[3].solo
    /\ {hist[2].res.stopped, hist[3].res.stopped} = {TRUE, FALSE}
    /\ procs[1].kills = 1

\* C9: when a stop() that found an owned handle returns, the process has
\* been terminated and waited for, no handle is owned, the recorded port is 0
\* and the recorded boot token is empty.
C9_StopClearsState ==
    [][ \A t \in Callers :
          (pc[t] = "stop_token" /\ pc'[t] = "idle")
              => /\ Exited(loc[t].pid)
                 /\ backend_process' = None
                 /\ backend_port' = 0
                 /\ backend_boot_token' = None
      ]_vars

\* C10: a status() that observes the exit of the owned process reports
\* running=false, and when it returns no handle is owned, the recorded port is
\* 0 and the recorded boot token is empty.  Stated for a status() during
\* which no other command runs, so that the state it leaves is its own doing.
C10_StatusClearsState ==
    [][ (Len(hist') = Len(hist) + 1
            /\ hist'[Len(hist')].op = "status"
            /\ hist'[Len(hist')].solo
            /\ hist'[Len(hist')].res.path = "exited")
          => /\ ~hist'[Len(hist')].res.running
             /\ backend_process' = None
             /\ backend_port' = 0
             /\ backend_boot_token' = None
      ]_vars

\* C11: a status() that follows, with nothing in between, a start() that
\* adopted a discovered backend and returned running=true with port p reports
\* port p.
C11_StatusReportsRecorded ==
    \A k \in DOMAIN hist :
        (InSequence(k)
            /\ hist[k].op = "start" /\ hist[k].res.path = "discovered" /\ hist[k].res.running
            /\ hist[k + 1].op = "status")
        => hist[k + 1].res.port = hist[k].res.port

\* No start() of the run so far adopted a backend it had discovered.
NothingDiscovered ==
    \A k \in Returned("start") : hist[k].res.path \notin {"discovered", "rediscovered"}

\* C12: with no command in flight, a non-zero recorded port implies an owned
\* handle, unless discovery populated the port for a backend it found (which
\* it cannot have with no backend of another session around).
C12_PortImpliesHandle ==
    (InFlight = {} /\ NothingDiscovered /\ (\A p \in DOMAIN ext : ~MatchingOn(p))
        /\ backend_port # 0)
        => backend_process # None

\* C14: a command returns an error only for a resolution error or a spawn
\* error.
C14_ErrorsOnlyResolutionOrSpawn ==
    \A k \in DOMAIN hist :
        hist[k].res.kind = "err" => hist[k].res.path \in {"resolution", "spawn"}

\* C13: when a start() that the OS refused to spawn has returned and no
\* command is in flight, the state is Idle: no handle is owned, the port is 0,
\* the token empty and the flag false.
C13_SpawnFailureResets ==
    [][ (Len(hist') = Len(hist) + 1
            /\ hist'[Len(hist')].op = "start"
            /\ hist'[Len(hist')].res.path = "spawn"
            /\ InFlight' = {})
          => /\ hist'[Len(hist')].res.kind = "err"
             /\ backend_process' = None
             /\ backend_port' = 0
             /\ backend_boot_token' = None
             /\ backend_starting' = FALSE
      ]_vars

\* The returns of start() after a readiness wait that timed out, and the
\* labels of the statements that lead to them.
TimeoutPaths == {"log", "rediscovered", "timeout"}
TimeoutLabels == {"recover", "recover_token", "rediscover", "rediscover_port",
                  "rediscover_token"}

SlowLabels == {"discover", "spawn", "wait", "rediscover", "stop_wait"}

\* C16: no command holds the mutex of backend_process while it is inside a
\* network call, a process spawn or a blocking wait on a process, so that no
\* status() waits for the mutex behind such an operation.
C16_NoLockAcrossSlowCall ==
    /\ \A t \in Callers : procLock = t => pc[t] \notin SlowLabels
    /\ \A t \in Callers :
          (pc[t] = "status" /\ procLock # 0) => pc[procLock] \notin SlowLabels

\* C17: when cleanup_app completes, no handle is owned, the recorded port is
\* 0 and the recorded boot token is empty, whatever calls preceded it.  Stated
\* for a cleanup during which no command runs.
C17_CleanupTearsDown ==
    [][ (Len(hist') = Len(hist) + 1
            /\ hist'[Len(hist')].op = "cleanup"
            /\ hist'[Len(hist')].solo)
          => /\ backend_process' = None
             /\ backend_port' = 0
             /\ backend_boot_token' = None
      ]_vars

\* Some process receives a terminate signal (kill, or the taskkill sweep) in
\* this step.
Signalled == \E i \in DOMAIN procs : procs'[i].kills > procs[i].kills

\* This step is one of stop_backend, called as a command or by cleanup_app.
StopStep ==
    \/ \E t \in Callers : pc'[t] = "stop_wait" /\ pc[t] # "stop_wait"
    \/ \E t \in Callers : pc[t] \in {"stop_wait", "stop_port", "stop_token"} /\ pc'[t] # pc[t]
    \/ /\ Len(hist') = Len(hist) + 1
       /\ hist'[Len(hist')].op \in {"stop", "cleanup"}

\* C18: a spawned process receives a terminate signal only in a step of
\* stop() (the stop of cleanup_app included); no step of start() or status()
\* sends one, and none changes the state of a process.
C18_OnlyStopTerminates ==
    [][ /\ Signalled => StopStep
        /\ \A t \in Callers :
              (pc'[t] # pc[t] /\ ~StopStep /\ Len(procs') = Len(procs)) => procs' = procs
        /\ \A t \in Callers :
              (pc[t] = "idle" /\ Len(hist') = Len(hist) + 1
                  /\ hist'[Len(hist')].op = "status") => procs' = procs
      ]_vars

\* A backend that start() launched and status() reported running was ended by
\* stop(), with one signal.
C18_Witness ==
    /\ Len(hist) = 3
    /\ hist[1].op = "start" /\ hist[1].res.pid # None
    /\ hist[2].op = "status" /\ hist[2].res.running
    /\ hist[3].op = "stop" /\ hist[3].res.stopped
    /\ \A i \in DOMAIN procs : procs[i].kills = 1
    /\ procs # <<>>

\* The boot tokens this supervisor generated for its launches.
Generated == 1..tokens

\* C19: in development mode every discovery runs without the token
\* requirement (lines 606 and 1078), so the recorded boot token is empty or
\* one this supervisor generated for a launch; a token reported by a
\* discovered instance is never recorded.
C19_TokenProvenance ==
    is_dev_mode => backend_boot_token \in {None} \cup Generated

\* The ports a probe can get an answer on.
AnsweringPorts == DOMAIN ext \cup {procs[i].port : i \in DOMAIN procs}

\* The service on port p answers with the backend's identifier and without a
\* boot token, or with an empty one.
TokenlessOn(p) ==
    /\ ServiceAt(p).up
    /\ ServiceAt(p).identifier = BACKEND_IDENTIFIER
    /\ ServiceAt(p).boot_token \in {None, EmptyString}

\* The starts that returned on a path that adopted a discovered instance.
Adoptions == {k \in Returned("start") : hist[k].res.path \in {"discovered", "rediscovered"}}

\* C20: with require_token set, the full scan and the single-port probe of
\* the quick discovery reject every response without a boot token or with an
\* empty one, also when its identifier matches, and what they accept carries
\* a non-empty token; in production mode every start() that adopted a
\* discovered instance returned a non-empty boot token.
C20_TokenRequired ==
    /\ \A p \in AnsweringPorts :
          /\ TokenlessOn(p) => /\ ~ProbeCandidate(p, TRUE).found
                               /\ ~check_backend_on_port(p, TRUE).found
          /\ ProbeCandidate(p, TRUE).found =>
                ProbeCandidate(p, TRUE).boot_token \notin {None, EmptyString}
          /\ check_backend_on_port(p, TRUE).found =>
                check_backend_on_port(p, TRUE).boot_token \notin {None, EmptyString}
    /\ discover_existing_backend_quick(TRUE).found =>
          discover_existing_backend_quick(TRUE).boot_token \notin {None, EmptyString}
    /\ ~is_dev_mode =>
          \A k \in Adoptions : /\ hist[k].res.running
                               /\ hist[k].res.boot_token \notin {None, EmptyString}

\* Production mode, and a backend of another session that reports no boot
\* token (or an empty one) answers on the port the quick discovery probes:
\* start() did not adopt it and launched a backend of its own.
C20_Witness ==
    /\ ~is_dev_mode /\ forced_port = 0
    /\ MatchingOn(DevRangeFirst) /\ ext[DevRangeFirst].boot_token \in {None, EmptyString}
    /\ Len(hist) >= 1
    /\ hist[1].op = "start" /\ hist[1].res.kind = "ok"
    /\ hist[1].res.path \notin {"discovered", "rediscovered"}
    /\ hist[1].res.pid # None

\* =================================================== the helpers on their own
\* The commands above run the helpers in the few environments of Scenarios.
\* Below each helper is run on its own, on inputs drawn from wider sets; the
\* supervisor is at rest and stays so.
session == <<backend_process, backend_port, backend_starting, backend_boot_token,
             procLock, procs, ext, log, is_dev_mode, forced_port, is_windows,
             workload, tokens, pc, loc, solo, hist>>

AtRest ==
    /\ backend_process = None
    /\ backend_port = 0
    /\ backend_starting = FALSE
    /\ backend_boot_token = None
    /\ procLock = 0
    /\ procs = <<>>
    /\ log = <<>>
    /\ is_dev_mode = FALSE
    /\ forced_port = 0
    /\ is_windows = FALSE
    /\ workload = Sequential
    /\ tokens = 0
    /\ pc = [t \in Callers |-> "idle"]
    /\ loc = [t \in Callers |-> NoLoc]
    /\ solo = [t \in Callers |-> TRUE]
    /\ hist = <<>>

DevRange == DevRangeFirst..DevRangeLast
ProdRange == ProdRangeFirst..ProdRangeLast

\* ---- discover_existing_backend
\* The ports that answer in a scan, the ends of the two ranges, and what may
\* answer there.
ScanPorts == {DevRangeFirst, DevRangeLast, ProdRangeFirst, ProdRangeLast}
ScanKinds(p) == {Down, Faulty("status"), Faulty("body"), Faulty("field"), Foreign,
                 Compatible(0, None), Compatible(0, EmptyString),
                 Compatible(p, ExtToken), Compatible(DevRangeFirst + 1, ExtToken)}
ScanConfigs == {e \in [ScanPorts -> UNION {ScanKinds(p) : p \in ScanPorts}] :
                   \A p \in ScanPorts : e[p] \in ScanKinds(p)}
NoServices == [p \in ExtPorts |-> Down]

ScanCalls == [name : {"discover_existing_backend"}, require_token : BOOLEAN,
              done : {FALSE}, ret : {NotFound}]

Scan ==
    /\ fn.name = "discover_existing_backend"
    /\ ~fn.done
    /\ fn' = [fn EXCEPT !.done = TRUE, !.ret = discover_existing_backend(fn.require_token)]
    /\ UNCHANGED session

\* ---- choose_backend_port
\* The ports that are taken when the port is chosen: all of both ranges but
\* some of their first two and last ports, or nothing but some of these.
PortSamples == {DevRangeFirst, DevRangeFirst + 1, DevRangeLast,
                ProdRangeFirst, ProdRangeFirst + 1, ProdRangeLast}
OccupiedSets == {(DevRange \cup ProdRange) \ free : free \in SUBSET PortSamples}
                \cup SUBSET PortSamples
\* The port the OS assigns to a bind on port 0.
EphemeralPort == 49152

ChooseCalls == [name : {"choose_backend_port"}, dev : BOOLEAN, occupied : OccupiedSets,
                ephemeral : {0, EphemeralPort}, done : {FALSE}, ret : {0}]

ChoosePort ==
    /\ fn.name = "choose_backend_port"
    /\ ~fn.done
    /\ fn' = [fn EXCEPT !.done = TRUE,
                        !.ret = choose_backend_port(fn.dev, fn.occupied, fn.ephemeral)]
    /\ UNCHANGED session

\* ---- the resolution of the command, lines 633-914 of start_backend
ResolveCalls == [name : {"resolve"}, dev : BOOLEAN, windows : BOOLEAN, files : Files,
                 done : {FALSE}, ret : {"none"}]

Resolve ==
    /\ fn.name = "resolve"
    /\ ~fn.done
    /\ fn' = [fn EXCEPT !.done = TRUE, !.ret = ResolveCommand(fn.dev, fn.windows, fn.files)]
    /\ UNCHANGED session

\* ---- ensure_backend_executable_available (Windows), lines 379-501
\* The files it works on:
\*   zip     the fingerprint (modification time) of resource_dir's
\*           superAutoCutVideoBackend.zip, 0 when the archive is missing
\*   stamp   the content of .backend_zip_stamp, 0 when there is none
\*   tree    the unpacked tree: "none" (extracted_backend_dir does not exist),
\*           "root" or "nested" (the executable and _internal/python311.dll
\*           are there, directly or one folder down), "invalid" (the folder
\*           exists without them)
\*   yields  what the archive extracts to: "root", "nested" or "invalid"
\*   lib_ok  ZipArchive opens and extracts the archive
\*   shell   the PowerShell fallback: "ok", "fail" (non-zero exit) or
\*           "spawn_err" (it cannot be started)
\* The stamp file lies in the unpacked tree.  fs_calls counts the calls so
\* far, extractions the calls that unpacked the archive, touched says that
\* the archive was replaced after the last call.
UnpackCalls == 2

is_valid_backend_root(tree, root) == tree = root

\* A check that asks for a new tree whenever the archive is there.
should_refresh_Always(zip, stamp) == zip # 0

\* Lines 412-424: zip_stamp() is Some(zip) when the archive is there.
should_refresh(zip, stamp) ==
    IF zip = 0 THEN FALSE
    ELSE stamp # zip

UnpackOk(path) == [ok |-> TRUE, path |-> path]
UnpackErr == [ok |-> FALSE, path |-> "none"]

\* The call on files f: f with the files as the call leaves them, its result
\* in ret and the counters advanced.
ensure_backend_executable_available(f) ==
    LET g == [f EXCEPT !.fs_calls = @ + 1, !.touched = FALSE]
        removed == [g EXCEPT !.tree = "none", !.stamp = 0]
        extracted == [removed EXCEPT !.extractions = @ + 1]
    IN  IF is_valid_backend_root(f.tree, "root") /\ ~should_refresh(f.zip, f.stamp)
        THEN [g EXCEPT !.ret = UnpackOk("root")]
        ELSE IF is_valid_backend_root(f.tree, "nested") /\ ~should_refresh(f.zip, f.stamp)
        THEN [g EXCEPT !.ret = UnpackOk("nested")]
        ELSE IF f.zip = 0
        THEN [removed EXCEPT !.ret = UnpackOk("root")]
        ELSE IF ~f.lib_ok /\ f.shell # "ok"
        THEN [extracted EXCEPT !.tree = "invalid", !.ret = UnpackErr]
        ELSE IF f.yields = "invalid"
        THEN [extracted EXCEPT !.ret = UnpackErr]
        ELSE [extracted EXCEPT !.tree = f.yields, !.stamp = f.zip,
                               !.ret = UnpackOk(f.yields)]

Trees == {"none", "root", "nested", "invalid"}
EnsureCalls ==
    {f \in [name : {"ensure_backend_executable_available"}, zip : {0, 1},
            stamp : {0, 1, 2}, tree : Trees, yields : Trees \ {"none"},
            lib_ok : BOOLEAN, shell : {"ok", "fail", "spawn_err"},
            fs_calls : {0}, extractions : {0}, touched : {FALSE}, ret : {UnpackErr}] :
        f.tree = "none" => f.stamp = 0}

EnsureUnpacked ==
    /\ fn.name = "ensure_backend_executable_available"
    /\ fn.fs_calls < UnpackCalls
    /\ fn' = ensure_backend_executable_available(fn)
    /\ UNCHANGED session

\* Between two calls the archive is replaced by a newer one.
TouchArchive ==
    /\ fn.name = "ensure_backend_executable_available"
    /\ fn.fs_calls \in 1..(UnpackCalls - 1)
    /\ fn.zip # 0 /\ ~fn.touched
    /\ fn' = [fn EXCEPT !.zip = @ + 1, !.touched = TRUE]
    /\ UNCHANGED session

\* ---- wait_for_backend_ready, lines 92-112
MaxWaitSecs == 2         \* the largest total_wait_secs a call is given
PollTimeoutMs == 3000    \* the timeout of one request
SleepMs == 250           \* the sleep after a request that did not succeed
PollsPerSecond == 4      \* attempts = total_wait_secs * 4

\* attempt counts the requests sent, elapsed the milliseconds since the call.
WaitCalls == [name : {"wait_for_backend_ready"}, total_wait_secs : 1..MaxWaitSecs,
              attempt : {0}, elapsed : {0}, done : {FALSE}, ret : {FALSE}]

\* One round of the loop.  The request succeeds ("success": the function
\* returns true), fails at once ("refused") or runs up to its timeout
\* ("hang"); after a request that did not succeed the function sleeps, and
\* it returns false after the last attempt.
Poll ==
    /\ fn.name = "wait_for_backend_ready"
    /\ ~fn.done
    /\ \E outcome \in {"success", "refused", "hang"} :
          LET attempts == fn.total_wait_secs * PollsPerSecond
              spent == (IF outcome = "hang" THEN PollTimeoutMs ELSE 0) + SleepMs
          IN  IF outcome = "success"
              THEN fn' = [fn EXCEPT !.attempt = @ + 1, !.done = TRUE, !.ret = TRUE]
              ELSE fn' = [fn EXCEPT !.attempt = @ + 1, !.elapsed = @ + spent,
                                    !.done = (fn.attempt + 1 = attempts)]
    /\ UNCHANGED session

\* ---- parse_backend_port_from_log, lines 231-284
MaxLogLen == 3           \* the largest number of URL lines of a log

\* The lines of a log that hold the URL: written by either reader thread,
\* with each phrase, of two backends or with no digits after the colon.
LogLines == [tag : {"stdout", "stderr"},
             phrase : {"uvicorn", "running", "listening", "none"},
             port : {0, DevRangeFirst, ProdRangeFirst}]

LogContents == UNION {[1..n -> LogLines] : n \in 0..MaxLogLen}

\* readable: read_to_string gave the content (line 233).
LogCalls == [name : {"parse_backend_port_from_log"}, readable : {TRUE},
             content : LogContents, done : {FALSE}, ret : {None}]
            \cup [name : {"parse_backend_port_from_log"}, readable : {FALSE},
                  content : {<<>>}, done : {FALSE}, ret : {None}]

ParseLog ==
    /\ fn.name = "parse_backend_port_from_log"
    /\ ~fn.done
    /\ fn' = [fn EXCEPT !.done = TRUE,
                        !.ret = IF fn.readable
                                THEN parse_backend_port_from_log(fn.content)
                                ELSE None]
    /\ UNCHANGED session

\* ---- the specification of the helpers
FnCalls == ScanCalls \cup ChooseCalls \cup ResolveCalls \cup EnsureCalls \cup WaitCalls
           \cup LogCalls

FnInit ==
    /\ AtRest
    /\ fn \in FnCalls
    /\ IF fn.name = "discover_existing_backend" THEN ext \in ScanConfigs ELSE ext = NoServices

FnNext ==
    \/ Scan
    \/ ChoosePort
    \/ Resolve
    \/ EnsureUnpacked
    \/ TouchArchive
    \/ Poll
    \/ ParseLog

FnSpec == FnInit /\ [][FnNext]_vars

\* ------------------------------------------------------------ claims C21..
\* The service on port p passes the checks of the scan: it answers with a
\* success status and a body that has "data" and the backend's identifier,
\* and with a non-empty boot token when one is required.
Passes(p, require_token) ==
    LET s == ServiceAt(p)
    IN  /\ s.up
        /\ s.identifier = BACKEND_IDENTIFIER
        /\ require_token => s.boot_token \notin {None, EmptyString}

\* The candidates that pass; the ports of 8000..8100 are the lower ones, so
\* the first of them in scan order is the least.
Passing(require_token) == {p \in DevRange \cup ProdRange : Passes(p, require_token)}

Scanned == fn.name = "discover_existing_backend" /\ fn.done

\* C21 as stated: the scan returns the first port, in scan order, that
\* passes the checks, and None when no candidate passes.
C21_AsStated ==
    Scanned =>
        IF Passing(fn.require_token) = {} THEN ~fn.ret.found
        ELSE fn.ret.found /\ fn.ret.port = Least(Passing(fn.require_token))

\* C21: the scan returns a result in every environment; a candidate whose
\* request failed, that answered with a non-success status, an unparsable
\* body or without "data" or "identifier", or with another identifier, is
\* skipped; the result is None when no candidate passes, and otherwise what
\* the first passing candidate of the scan order (8000..8100, then
\* 18000..18100) reported: its "port" (the probed port when it reports none)
\* and its boot token (None when it is empty).
C21_ScanFirstPassing ==
    Scanned =>
        /\ \A p \in ScanPorts :
              (ext[p].fault # "none" \/ ext[p].identifier # BACKEND_IDENTIFIER)
                  => p \notin Passing(fn.require_token)
        /\ IF Passing(fn.require_token) = {} THEN fn.ret = NotFound
           ELSE LET s == ServiceAt(Least(Passing(fn.require_token)))
                IN  /\ fn.ret.found
                    /\ fn.ret.port = IF s.port # 0 THEN s.port
                                     ELSE Least(Passing(fn.require_token))
                    /\ fn.ret.boot_token = IF s.boot_token = EmptyString THEN None
                                           ELSE s.boot_token

\* A scan with a token required went past a candidate with a non-success
\* status, one with an unparsable body and one with another identifier, and
\* returned the backend on the last port of the second range.
C21_Witness ==
    /\ Scanned /\ fn.require_token
    /\ ext[DevRangeFirst] = Faulty("status")
    /\ ext[DevRangeLast] = Faulty("body")
    /\ ext[ProdRangeFirst] = Foreign
    /\ fn.ret = Found(ProdRangeLast, ExtToken)

Chosen == fn.name = "choose_backend_port" /\ fn.done
FreeDev == DevRange \ fn.occupied
FreeProd == ProdRange \ fn.occupied

\* C22: when every port of 8000..8100 is occupied and some port of
\* 18000..18100 is free, the port chosen is a free port of 18000..18100, in
\* development and in production mode.
C22_FallbackRange ==
    (Chosen /\ FreeDev = {} /\ FreeProd # {}) =>
        fn.ret \in ProdRange /\ is_port_available(fn.ret, fn.occupied)

\* Development mode, 8000..8100 all occupied, and of 18000..18100 only the
\* last port free: it is the port chosen.
C22_Witness ==
    /\ Chosen /\ fn.dev
    /\ FreeDev = {} /\ FreeProd = {ProdRangeLast}
    /\ fn.ret = ProdRangeLast

\* C29: the port chosen is the first free port in the order of the mode:
\* development mode takes the lowest free port of 8000..8100, else the lowest
\* free port of 18000..18100, else 8000; production mode takes the lowest
\* free port of 18000..18100, else the lowest free port of 8000..8100, else
\* the port the OS assigned, else 18000.  A port that is not free is returned
\* only as the last resort.
C29_PreferenceOrder ==
    Chosen =>
        /\ fn.ret = IF fn.dev
                    THEN IF FreeDev # {} THEN Least(FreeDev)
                         ELSE IF FreeProd # {} THEN Least(FreeProd)
                         ELSE DevRangeFirst
                    ELSE IF FreeProd # {} THEN Least(FreeProd)
                         ELSE IF FreeDev # {} THEN Least(FreeDev)
                         ELSE IF fn.ephemeral # 0 THEN fn.ephemeral
                         ELSE ProdRangeFirst
        /\ ~is_port_available(fn.ret, fn.occupied) =>
              /\ FreeDev = {} /\ FreeProd = {}
              /\ fn.ret = IF fn.dev THEN DevRangeFirst ELSE ProdRangeFirst
              /\ ~fn.dev => fn.ephemeral = 0

\* Production mode with both ranges occupied: the port the OS assigned is
\* chosen.
C29_Witness ==
    /\ Chosen /\ ~fn.dev
    /\ FreeDev = {} /\ FreeProd = {}
    /\ fn.ephemeral # 0 /\ fn.ret = fn.ephemeral

Resolved == fn.name = "resolve" /\ fn.done

\* A packaged executable exists at one of the candidate paths of lines
\* 747-809, or the archive is there to be staged and staging succeeds.
PackagedExists(windows, f) ==
    \/ f.other_exists
    \/ windows /\ f.folder_exists
    \/ windows /\ f.zip_exists /\ ~f.folder_exists /\ f.unpack_ok

\* C23: whenever a packaged or staged backend executable exists at one of the
\* candidate paths, resolution does not pick the development script, in
\* development and in production mode (it picks the executable).
C23_PackagedFirst ==
    (Resolved /\ PackagedExists(fn.windows, fn.files)) => fn.ret # "script"

Unpacking == fn.name = "ensure_backend_executable_available"

\* C24: a call of ensure_backend_executable_available that follows a call
\* which returned a path, with the archive there and not replaced in
\* between, finds the stamp equal to the archive's fingerprint: it unpacks
\* nothing, leaves the tree and the stamp as they are and returns the same
\* path, so that the two calls unpack the archive at most once.
C24_SecondCallReuses ==
    [][ (/\ Unpacking /\ fn.fs_calls >= 1 /\ fn'.fs_calls = fn.fs_calls + 1
         /\ fn.ret.ok /\ fn.zip # 0 /\ ~fn.touched)
        => /\ fn.stamp = fn.zip
           /\ fn'.extractions = fn.extractions
           /\ fn'.tree = fn.tree /\ fn'.stamp = fn.stamp
           /\ fn'.ret = fn.ret
           /\ fn.fs_calls = 1 => fn'.extractions <= 1
      ]_vars

\* Two calls on an archive that was not replaced: the first unpacked it,
\* the second returned the same path without unpacking.
C24_Witness ==
    /\ Unpacking /\ fn.fs_calls = 2 /\ ~fn.touched
    /\ fn.zip # 0 /\ fn.ret = UnpackOk("nested")
    /\ fn.extractions = 1

\* C30: a call returns a path only when the executable is at that path when
\* it returns; with the archive missing, the extraction failing or the
\* extracted tree invalid it returns an error.
C30_PathOnlyIfExecutable ==
    (Unpacking /\ fn.fs_calls >= 1 /\ fn.ret.ok) =>
        is_valid_backend_root(fn.tree, fn.ret.path)

Waiting == fn.name = "wait_for_backend_ready"

\* C25: wait_for_backend_ready returns true with the first request that
\* succeeds, and it goes on to another request only while the time elapsed
\* does not exceed total_wait_secs, whatever the requests take.
C25_WaitBounded ==
    (Waiting /\ ~fn.done) => fn.elapsed <= fn.total_wait_secs * 1000

\* The command that returns in this step is a stop_backend that took a
\* handle.
StopTokenReturn == \E t \in Callers : pc[t] = "stop_token" /\ pc'[t] = "idle"

\* C26: stop() takes the branch that kills only with a handle owned; a
\* stop() that finds no handle owned returns Ok(false), not an error, and
\* leaves the handle, the recorded port, the recorded boot token and the
\* start-in-progress flag as they are (on Windows it runs the taskkill sweep,
\* which touches none of them).
C26_StopNoOp ==
    [][ /\ \A t \in Callers :
              (pc'[t] = "stop_wait" /\ pc[t] # "stop_wait") => backend_process # None
        /\ (/\ Len(hist') = Len(hist) + 1
            /\ hist'[Len(hist')].op = "stop"
            /\ ~StopTokenReturn)
           => /\ backend_process = None
              /\ hist'[Len(hist')].res.kind = "ok"
              /\ ~hist'[Len(hist')].res.stopped
              /\ appState' = appState
              /\ procs' = Sweep(procs)
      ]_vars

\* start() adopted a backend of another session and recorded its port; the
\* stop() that followed found no handle, returned false and left the port.
C26_Witness ==
    /\ Len(hist) = 2 /\ InFlight = {}
    /\ hist[1].op = "start" /\ hist[1].res.path = "discovered"
    /\ hist[2].op = "stop" /\ hist[2].res.kind = "ok" /\ ~hist[2].res.stopped
    /\ backend_port = hist[1].res.port /\ backend_port # 0

\* C27: a start() that finds the start-in-progress flag set at its swap
\* goes to the branch of lines 918-932, whose steps leave the handle, the
\* port, the token, the flag and the processes as they are; it returns
\* pid None, the port recorded when it read it, and running exactly when
\* that port is not 0.
C27_BusyStartWritesNothing ==
    [][ \A t \in Callers :
          /\ (pc[t] = "guard" /\ backend_starting /\ pc'[t] # pc[t])
                => pc'[t] = "busy_port" /\ appState' = appState /\ procs' = procs
          /\ (pc[t] = "guard" /\ ~backend_starting /\ pc'[t] # pc[t])
                => pc'[t] # "busy_port"
          /\ (pc[t] = "busy_port" /\ pc'[t] # pc[t])
                => /\ pc'[t] = "busy_token"
                   /\ loc'[t].port = backend_port
                   /\ appState' = appState /\ procs' = procs
          /\ (pc[t] = "busy_token" /\ pc'[t] # pc[t])
                => /\ pc'[t] = "idle"
                   /\ appState' = appState /\ procs' = procs
                   /\ hist'[Len(hist')].op = "start"
                   /\ hist'[Len(hist')].res.kind = "ok"
                   /\ hist'[Len(hist')].res.pid = None
                   /\ hist'[Len(hist')].res.port = loc[t].port
                   /\ hist'[Len(hist')].res.running = (loc[t].port # 0)
      ]_vars

\* A start() found the flag set by a start() that had recorded its port
\* and launched its backend, and returned running=true with that port and
\* no pid.
C27_Witness ==
    \E k \in Returned("start") :
        /\ hist[k].res.path = "busy"
        /\ hist[k].res.running /\ hist[k].res.port # 0 /\ hist[k].res.pid = None
        /\ Len(procs) = 1

\* The returns of a start() that resolved a command: it found a packaged
\* executable, or the development script.
LaunchPaths == {"busy", "ready", "log", "rediscovered", "timeout", "spawn"}

\* C28 as stated: in production mode with no forced port, a start() called
\* when no packaged executable exists returns an error.  A start() that
\* returns before resolution looks at no file: it returns the same when no
\* packaged executable exists.  (A start() that returns for a live owned
\* process is left aside: that process was launched from an executable.)
C28_AsStated ==
    (~is_dev_mode /\ forced_port = 0) =>
        \A k \in Returned("start") :
            hist[k].res.path \notin LaunchPaths \cup {"alive"} => hist[k].res.kind = "err"

\* C28: in production mode a start() that reaches resolution (no live
\* owned process, nothing adopted by the discovery) when no packaged
\* executable exists at a candidate path returns an error; the step that
\* returns it spawns nothing and leaves the handle, the recorded port, the
\* boot token and the start-in-progress flag as they are, and no process of
\* production mode runs the development script.
C28_NoExecutableNoLaunch ==
    [][ /\ \A f \in Files :
              ~PackagedExists(is_windows, f) => ResolveCommand(FALSE, is_windows, f) = "error"
        /\ (/\ Len(hist') = Len(hist) + 1
            /\ hist'[Len(hist')].op = "start"
            /\ hist'[Len(hist')].res.path = "resolution")
           => /\ hist'[Len(hist')].res.kind = "err"
              /\ appState' = appState
              /\ procs' = procs
        /\ ~is_dev_mode => \A i \in DOMAIN procs' : procs'[i].cmd = "exe"
      ]_vars

\* Production mode, no forced port: a start() returned the resolution error
\* with nothing spawned and nothing recorded.
C28_Witness ==
    /\ ~is_dev_mode /\ forced_port = 0
    /\ Len(hist) = 1
    /\ hist[1].op = "start" /\ hist[1].res.kind = "err" /\ hist[1].res.path = "resolution"
    /\ procs = <<>>
    /\ backend_process = None /\ backend_port = 0
    /\ backend_boot_token = None /\ ~backend_starting

\* ------------------------------------------------------------ claims C31..
Parsed == fn.name = "parse_backend_port_from_log" /\ fn.done

\* The line holds the startup banner "running on http://<host>:<port>",
\* compared without regard to case.
IsBanner(line) == line.phrase \in {"uvicorn", "running"}

\* C31: the port recovered from the log is the port of the last line that
\* holds the startup banner.  Stated for the logs that are read and are made
\* of banner lines with a port only, where the last banner line is the last
\* line.
C31_LastBannerWins ==
    (/\ Parsed /\ fn.readable /\ fn.content # <<>>
     /\ \A i \in DOMAIN fn.content :
           IsBanner(fn.content[i]) /\ fn.content[i].port > 0)
    => fn.ret = fn.content[Len(fn.content)].port

\* The labels of a start() between the swap of line 917 that found the flag
\* clear and its store of line 1045 or line 1100.
FlagLabels == {"set_port", "set_token", "spawn", "store", "unflag", "fail_flag"}

\* C32: the start-in-progress flag is set exactly while the start() that set
\* it is between its swap and its store, which comes before its return on
\* spawn success and on spawn failure; a start() is turned away at the swap
\* only while another start() is there, never by the flag of a finished call.
C32_FlagClearedBeforeReturn ==
    [][ /\ backend_starting' <=> \E t \in Callers : pc'[t] \in FlagLabels
        /\ \A t \in Callers :
              (pc[t] = "guard" /\ pc'[t] = "busy_port")
                 => \E u \in Callers \ {t} : pc[u] \in FlagLabels
      ]_vars

\* A start() whose spawn failed and a start() whose backend became ready
\* have both returned, the second past the swap, and the flag is clear.
C32_Witness ==
    \E j, k \in Returned("start") :
        /\ j < k
        /\ hist[j].res.path = "spawn"
        /\ hist[k].res.path = "ready"
        /\ ~backend_starting

\* The returns of a start() that spawned a process and stored its handle.
SpawnedPaths == {"ready", "log", "rediscovered", "timeout"}

\* C33: when a start() that launched a process returns after a stop() that
\* overlapped it took the handle and returned true, and no command is left in
\* flight, it does not report running=true with the pid of a process that was
\* killed, and with no handle owned the recorded port is 0.
C33_StopDuringStart ==
    [][ (/\ Len(hist') = Len(hist) + 1
         /\ hist'[Len(hist')].op = "start"
         /\ hist'[Len(hist')].res.path \in SpawnedPaths
         /\ InFlight' = {}
         /\ \E k \in Returned("stop") : ~hist[k].solo /\ hist[k].res.stopped)
          => LET r == hist'[Len(hist')].res
             IN  /\ (r.running /\ r.pid # None) => procs'[r.pid].kills = 0
                 /\ backend_process' = None => backend_port' = 0
      ]_vars

\* C34: with no command in flight and a process handle owned, the recorded
\* boot token is the token passed in the environment of the owned child
\* (SACV_BOOT_TOKEN, line 988).
C34_TokenOfOwnedChild ==
    (InFlight = {} /\ backend_process # None)
       => backend_boot_token = procs[backend_process].token
====
